---- MODULE Spec2Model ----
\* A model of github.com/hnakamur/webapputil:
\*   - request_id.go: RequestIDMiddleware / RequestID (package webapputil)
\*   - problem:       Problem / SendProblem (package problem)
\* The two packages share no state.  Each has its own specification
\* (SpecRequestID, SpecProblem) over the module's variables; the variables of
\* the other package stay at their initial values.
EXTENDS Integers, Sequences, FiniteSets, TLC

VARIABLES
    \* ---- package webapputil (request_id.go) ----
    chain,      \* number of RequestIDMiddleware layers the server's handler chain holds
    inbound,    \* inbound[r]: the context request r arrived with (history variable)
    frames,     \* frames[r]: contexts of the *http.Request values live on r's call stack
    rpc,        \* rpc[r]: where the goroutine serving r stands
    reqID,      \* the local variable reqID of the middleware closure, per invocation
    newCtx,     \* the local variable ctx of the middleware closure
    generated,  \* generated[r]: what fn returned for r, one entry per layer (history)
    reads,      \* reads[r]: the RequestID calls made while serving r, with their outcome
    \* ---- package problem ----
    ppc,        \* index of the next statement of SendProblem (into SendProblemSteps)
    code,       \* argument statusCode
    prob,       \* argument problem
    header0,    \* w.Header() when SendProblem was called (history)
    fresh,      \* whether w's header was unsent when SendProblem was called (history)
    header,     \* w.Header(): header name -> sequence of values
    wroteHeader,\* whether w has sent its status line and header
    status,     \* the status code w sent (0 before)
    sentHeader, \* the header as it was sent with the status line
    body,       \* the body bytes w accepted
    calls,      \* the calls SendProblem made on w, in order
    writeFailed,\* whether the body write failed (history)
    ret         \* what SendProblem returned ("none" while it runs)

reqVars == <<chain, inbound, frames, rpc, reqID, newCtx, generated, reads>>
probVars == <<ppc, code, prob, header0, fresh, header, wroteHeader, status, sentHeader,
              body, calls, writeFailed, ret>>
vars == <<reqVars, probVars>>

-----------------------------------------------------------------------------
\* Bounds of the model.
NumRequests == 2     \* requests served concurrently
MaxLayers == 2       \* RequestIDMiddleware applications in one handler chain
MaxReads == 2        \* RequestID calls recorded per request

Requests == 1..NumRequests

-----------------------------------------------------------------------------
\* package webapputil: context values
\* A context key or value is a Go interface value: a dynamic type and a value.
\* Two interface values are equal only when both agree.

Iface(t, v) == [type |-> t, val |-> v]
Str(s) == Iface("string", s)
Nil == Iface("nil", "")

\* var requestIDKey = requestIDKeyType{}
requestIDKey == Iface("webapputil.requestIDKeyType", "{}")

\* A context is the chain of WithValue entries, outermost first.
Background == <<>>

\* ctx.Value(key): the innermost entry for key, Nil when there is none.
RECURSIVE Value(_, _)
Value(ctx, key) ==
    IF ctx = <<>> THEN Nil
    ELSE IF ctx[Len(ctx)][1] = key THEN ctx[Len(ctx)][2]
    ELSE Value(SubSeq(ctx, 1, Len(ctx) - 1), key)

WithValueNoParent(parent, key, val) == <<<<key, val>>>>
\* context.WithValue(parent, key, val)
WithValue(parent, key, val) == Append(parent, <<key, val>>)

RequestIDOrEmpty(ctx) ==
    LET v == Value(ctx, requestIDKey)
    IN  [panic |-> FALSE, val |-> IF v.type = "string" THEN v.val ELSE ""]
\* func RequestID(r): r.Context().Value(requestIDKey).(string)
\* The one-result type assertion panics when the value is not a string.
RequestID(ctx) ==
    LET v == Value(ctx, requestIDKey)
    IN  IF v.type = "string" THEN [panic |-> FALSE, val |-> v.val]
        ELSE [panic |-> TRUE, val |-> ""]

WithContextInPlace(stack, ctx) == Append([i \in DOMAIN stack |-> ctx], ctx)
WithContextDropped(stack, ctx) == Append(stack, stack[Len(stack)])
\* next.ServeHTTP(w, r.WithContext(ctx)): next receives a shallow copy of r that
\* carries ctx; the caller's r keeps its context.
WithContext(stack, ctx) == Append(stack, ctx)

SharedSlot(r) == 1
\* reqID := fn(r) declares a variable of the closure's invocation: one per request.
ReqIDSlot(r) == r

\* What a RequestIDFunc may return: any string.
IDs == {"", "abc-123", "id-2"}

\* Keys other code may have put in the inbound context.  A string key named
\* like the request id is still another key than requestIDKey.
OtherKeys == {Str("user"), Str("requestID")}

InboundContexts ==
    { Background,
      << <<Str("user"), Str("alice")>>, <<Str("requestID"), Str("spoofed")>> >> }

Level(r) == Len(frames[r]) - 1
Top(r) == frames[r][Len(frames[r])]

\* line 24: reqID := fn(r)
GenerateID(r) ==
    /\ rpc[r] = "enter"
    /\ Level(r) < chain
    /\ \E id \in IDs :
        /\ reqID' = [reqID EXCEPT ![ReqIDSlot(r)] = id]
        /\ generated' = [generated EXCEPT ![r] = Append(@, id)]
    /\ rpc' = [rpc EXCEPT ![r] = "derive"]
    /\ UNCHANGED <<chain, inbound, frames, newCtx, reads>>
    /\ UNCHANGED probVars

\* line 25: ctx := context.WithValue(r.Context(), requestIDKey, reqID)
DeriveContext(r) ==
    /\ rpc[r] = "derive"
    /\ newCtx' = [newCtx EXCEPT ![r] =
                    WithValue(Top(r), requestIDKey, Str(reqID[ReqIDSlot(r)]))]
    /\ rpc' = [rpc EXCEPT ![r] = "call"]
    /\ UNCHANGED <<chain, inbound, frames, reqID, generated, reads>>
    /\ UNCHANGED probVars

\* line 26: next.ServeHTTP(w, r.WithContext(ctx))
CallNext(r) ==
    /\ rpc[r] = "call"
    /\ frames' = [frames EXCEPT ![r] = WithContext(@, newCtx[r])]
    /\ rpc' = [rpc EXCEPT ![r] = "enter"]
    /\ UNCHANGED <<chain, inbound, reqID, newCtx, generated, reads>>
    /\ UNCHANGED probVars

\* Code of the chain that holds the request at the current level (a handler
\* before or after the next layer, or the innermost handler) calls RequestID(r).
\* A panic unwinds the goroutine's handler chain.
ReadRequestID(r) ==
    /\ rpc[r] \in {"enter", "exit"}
    /\ Len(reads[r]) < MaxReads
    /\ LET res == RequestID(Top(r))
       IN  /\ reads' = [reads EXCEPT ![r] =
                          Append(@, [level |-> Level(r), panic |-> res.panic,
                                     val |-> res.val])]
           /\ rpc' = [rpc EXCEPT ![r] = IF res.panic THEN "panicked" ELSE @]
    /\ UNCHANGED <<chain, inbound, frames, reqID, newCtx, generated>>
    /\ UNCHANGED probVars

\* The handler at the current level returns to the middleware that called it.
HandlerReturn(r) ==
    /\ \/ rpc[r] = "enter" /\ Level(r) = chain
       \/ rpc[r] = "exit"
    /\ Level(r) >= 1
    /\ frames' = [frames EXCEPT ![r] = SubSeq(@, 1, Len(@) - 1)]
    /\ rpc' = [rpc EXCEPT ![r] = "exit"]
    /\ UNCHANGED <<chain, inbound, reqID, newCtx, generated, reads>>
    /\ UNCHANGED probVars

\* The outermost handler returns: the request is served.
Finish(r) ==
    /\ \/ rpc[r] = "enter" /\ Level(r) = chain
       \/ rpc[r] = "exit"
    /\ Level(r) = 0
    /\ rpc' = [rpc EXCEPT ![r] = "done"]
    /\ UNCHANGED <<chain, inbound, frames, reqID, newCtx, generated, reads>>
    /\ UNCHANGED probVars

-----------------------------------------------------------------------------
\* package problem

\* const contentType = "application/problem+json"
contentType == "application/problem+json"

\* ---- encoding/json, as SendProblem uses it ----

Digit(d) == SubSeq("0123456789", d + 1, d + 1)

\* strconv formatting of an int, as encoding/json writes integers.
RECURSIVE Itoa(_)
Itoa(n) ==
    IF n < 0 THEN "-" \o Itoa(0 - n)
    ELSE IF n < 10 THEN Digit(n)
    ELSE Itoa(n \div 10) \o Digit(n % 10)

\* One character of a JSON string.  json.NewEncoder leaves HTML escaping on.
EscapeChar(c) ==
    CASE c = "\"" -> "\\\""
      [] c = "\\" -> "\\\\"
      [] c = "\n" -> "\\n"
      [] c = "<"  -> "\\u003c"
      [] c = ">"  -> "\\u003e"
      [] c = "&"  -> "\\u0026"
      [] OTHER    -> c

RECURSIVE Escape(_)
Escape(s) ==
    IF Len(s) = 0 THEN ""
    ELSE EscapeChar(SubSeq(s, 1, 1)) \o Escape(SubSeq(s, 2, Len(s)))

EncodeString(s) == "\"" \o Escape(s) \o "\""

RECURSIVE Join(_, _)
Join(members, sep) ==
    IF members = <<>> THEN ""
    ELSE IF Len(members) = 1 THEN members[1]
    ELSE members[1] \o sep \o Join(Tail(members), sep)

\* ---- type Problem ----

JSONNameUntagged(field) == field
\* The name each field's `json:"..."` tag gives it.
JSONName(field) ==
    CASE field = "Type"     -> "type"
      [] field = "Title"    -> "title"
      [] field = "Status"   -> "status"
      [] field = "Detail"   -> "detail"
      [] field = "Instance" -> "instance"
      [] field = "Balance"  -> "balance"

KeepEmpty(isZero, member) == <<member>>
\* The omitempty option of a tag: a field holding its type's zero value is skipped.
OmitEmpty(isZero, member) == IF isZero THEN <<>> ELSE <<member>>

Member(field, encoded) == EncodeString(JSONName(field)) \o ":" \o encoded

\* The members of the JSON object of a Problem, in field order.
ProblemMembers(p) ==
       OmitEmpty(p.Type = "",     Member("Type", EncodeString(p.Type)))
    \o OmitEmpty(p.Title = "",    Member("Title", EncodeString(p.Title)))
    \o OmitEmpty(p.Status = 0,    Member("Status", Itoa(p.Status)))
    \o OmitEmpty(p.Detail = "",   Member("Detail", EncodeString(p.Detail)))
    \o OmitEmpty(p.Instance = "", Member("Instance", EncodeString(p.Instance)))

\* The application's value: a Problem ("Problem"), a struct that embeds Problem
\* and adds a field Balance int `json:"balance"` ("embedding", as problemExample1
\* of the package documentation), or a struct that embeds Problem and adds a
\* field encoding/json has no encoding for, such as a channel ("unsupported").
\* The fields of an embedded struct are promoted: they come first, at the same level.
Members(p) ==
    ProblemMembers(p) \o
    (IF p.Kind = "embedding" THEN <<Member("Balance", Itoa(p.Balance))>> ELSE <<>>)

\* json.Marshal, as Encode runs it: an error, or the bytes of the object.
Marshal(p) ==
    IF p.Kind = "unsupported" THEN [err |-> TRUE, bytes |-> ""]
    ELSE [err |-> FALSE, bytes |-> "{" \o Join(Members(p), ",") \o "}"]

\* What enc.Encode(problem) hands to w.Write: the value, then a newline.
EncodeBytes(p) == Marshal(p).bytes \o "\n"

\* ---- http.ResponseWriter ----

HeaderNames == {"Content-Type", "Cache-Control"}

HeaderAdd(h, key, value) == [h EXCEPT ![key] = Append(@, value)]
\* w.Header().Set(key, value) replaces whatever values key had.
HeaderSet(h, key, value) == [h EXCEPT ![key] = <<value>>]

StepsEncodeFirst == <<"Header.Set", "Encode", "WriteHeader">>
\* The statements of SendProblem, in program order.
SendProblemSteps == <<"Header.Set", "WriteHeader", "Encode">>

ReturnNil(encErr) == "nil"
\* return enc.Encode(problem)
SendProblemReturn(encErr) == IF encErr THEN "err" ELSE "nil"

Running == ppc <= Len(SendProblemSteps)
Step == SendProblemSteps[ppc]

StatusCodes == {200, 400, 403}
Types == {"", "https://example.com/x"}
Titles == {"", "Bad", "a<b \"type\":"}
Statuses == {0, 400, -7}
Details == {"", "x\\y & z"}
Instances == {"", "/a/1"}

ProblemValues ==
    { [Kind |-> k, Type |-> ty, Title |-> ti, Status |-> st, Detail |-> de,
       Instance |-> ins, Balance |-> b] :
        k \in {"Problem", "unsupported"}, ty \in Types, ti \in Titles,
        st \in Statuses, de \in Details, ins \in Instances, b \in {0} }
    \cup
    { [Kind |-> "embedding", Type |-> ty, Title |-> ti, Status |-> st,
       Detail |-> de, Instance |-> ins, Balance |-> b] :
        ty \in Types, ti \in Titles, st \in Statuses, de \in Details,
        ins \in Instances, b \in {0, 30} }

ContentTypesBefore ==
    { <<>>, <<"text/plain">>, <<"application/json", "text/html">> }

InitProblem ==
    /\ ppc = 1
    /\ code \in StatusCodes
    /\ prob \in ProblemValues
    /\ \E ct \in ContentTypesBefore :
        header = [n \in HeaderNames |->
                    IF n = "Content-Type" THEN ct ELSE <<"no-store">>]
    /\ header0 = header
    /\ wroteHeader \in BOOLEAN
    /\ fresh = ~wroteHeader
    \* a response already under way has sent 200 and some bytes
    /\ status = IF wroteHeader THEN 200 ELSE 0
    /\ sentHeader = IF wroteHeader THEN header
                    ELSE [n \in HeaderNames |-> <<>>]
    /\ body = IF wroteHeader THEN "hello" ELSE ""
    /\ calls = <<>>
    /\ writeFailed = FALSE
    /\ ret = "none"

\* line 128: w.Header().Set("Content-Type", contentType)
SetContentType ==
    /\ Running /\ Step = "Header.Set"
    /\ header' = HeaderSet(header, "Content-Type", contentType)
    /\ calls' = Append(calls, "Header.Set")
    /\ ppc' = ppc + 1
    /\ UNCHANGED <<code, prob, header0, fresh, wroteHeader, status, sentHeader,
                   body, writeFailed, ret>>
    /\ UNCHANGED reqVars

\* line 129: w.WriteHeader(statusCode).  A response that has sent its header
\* ignores the call.
WriteHeader ==
    /\ Running /\ Step = "WriteHeader"
    /\ calls' = Append(calls, "WriteHeader")
    /\ IF wroteHeader
       THEN UNCHANGED <<wroteHeader, status, sentHeader>>
       ELSE /\ wroteHeader' = TRUE
            /\ status' = code
            /\ sentHeader' = header
    /\ ppc' = ppc + 1
    /\ UNCHANGED <<code, prob, header0, fresh, header, body, writeFailed, ret>>
    /\ UNCHANGED reqVars

\* lines 130-131: enc := json.NewEncoder(w); enc.Encode(problem), the value is
\* marshalled first, and nothing is written when that fails.
EncodeUnsupported ==
    /\ Running /\ Step = "Encode"
    /\ Marshal(prob).err
    /\ ppc' = ppc + 1
    /\ ret' = SendProblemReturn(TRUE)
    /\ UNCHANGED <<code, prob, header0, fresh, header, wroteHeader, status,
                   sentHeader, body, calls, writeFailed>>
    /\ UNCHANGED reqVars

\* lines 130-131: the marshalled bytes go to w in one Write.  A Write on a
\* response that has not sent its header sends it with status 200 first.  The
\* write succeeds, or fails after n bytes (the client is gone).
EncodeWrite ==
    /\ Running /\ Step = "Encode"
    /\ ~Marshal(prob).err
    /\ calls' = Append(calls, "Write")
    /\ IF wroteHeader
       THEN UNCHANGED <<wroteHeader, status, sentHeader>>
       ELSE /\ wroteHeader' = TRUE
            /\ status' = 200
            /\ sentHeader' = header
    /\ \/ /\ body' = body \o EncodeBytes(prob)
          /\ writeFailed' = FALSE
          /\ ret' = SendProblemReturn(FALSE)
       \/ /\ \E n \in {0, 1} : body' = body \o SubSeq(EncodeBytes(prob), 1, n)
          /\ writeFailed' = TRUE
          /\ ret' = SendProblemReturn(TRUE)
    /\ ppc' = ppc + 1
    /\ UNCHANGED <<code, prob, header0, fresh, header>>
    /\ UNCHANGED reqVars

-----------------------------------------------------------------------------
\* Specifications

IdleProblem ==
    /\ ppc = 1 /\ code = 200 /\ ret = "none"
    /\ prob = [Kind |-> "Problem", Type |-> "", Title |-> "", Status |-> 0,
               Detail |-> "", Instance |-> "", Balance |-> 0]
    /\ header = [n \in HeaderNames |-> <<>>] /\ header0 = header
    /\ sentHeader = header
    /\ wroteHeader = FALSE /\ fresh = TRUE /\ status = 0 /\ body = ""
    /\ calls = <<>> /\ writeFailed = FALSE

IdleRequestID ==
    /\ chain = 0
    /\ inbound = [r \in Requests |-> Background]
    /\ frames = [r \in Requests |-> <<Background>>]
    /\ rpc = [r \in Requests |-> "done"]
    /\ reqID = [r \in Requests |-> ""]
    /\ newCtx = [r \in Requests |-> Background]
    /\ generated = [r \in Requests |-> <<>>]
    /\ reads = [r \in Requests |-> <<>>]

NextRequestID ==
    \/ \E r \in Requests : GenerateID(r)
    \/ \E r \in Requests : DeriveContext(r)
    \/ \E r \in Requests : CallNext(r)
    \/ \E r \in Requests : ReadRequestID(r)
    \/ \E r \in Requests : HandlerReturn(r)
    \/ \E r \in Requests : Finish(r)

NextProblem ==
    \/ SetContentType
    \/ WriteHeader
    \/ EncodeUnsupported
    \/ EncodeWrite

\* One request travelling through a handler chain that holds 0..MaxLayers
\* applications of RequestIDMiddleware.
InitChain ==
    /\ chain \in 0..MaxLayers
    /\ inbound \in [Requests -> InboundContexts]
    /\ \A r \in Requests : r # 1 => inbound[r] = Background
    /\ frames = [r \in Requests |-> <<inbound[r]>>]
    /\ rpc = [r \in Requests |-> IF r = 1 THEN "enter" ELSE "done"]
    /\ reqID = [r \in Requests |-> ""]
    /\ newCtx = [r \in Requests |-> Background]
    /\ generated = [r \in Requests |-> <<>>]
    /\ reads = [r \in Requests |-> <<>>]

InitSpecChain == InitChain /\ IdleProblem

SpecChain == InitSpecChain /\ [][NextRequestID]_vars

\* NumRequests requests served at once through RequestIDMiddleware(next, fn):
\* the host server runs each request's handler on its own goroutine.
InitConcurrent ==
    /\ chain = 1
    /\ \E c \in InboundContexts : inbound = [r \in Requests |-> c]
    /\ frames = [r \in Requests |-> <<inbound[r]>>]
    /\ rpc = [r \in Requests |-> "enter"]
    /\ reqID = [r \in Requests |-> ""]
    /\ newCtx = [r \in Requests |-> Background]
    /\ generated = [r \in Requests |-> <<>>]
    /\ reads = [r \in Requests |-> <<>>]

InitSpecConcurrent == InitConcurrent /\ IdleProblem

SpecConcurrent == InitSpecConcurrent /\ [][NextRequestID]_vars

\* One call of SendProblem on one response.
InitSpecProblem == InitProblem /\ IdleRequestID

SpecProblem == InitSpecProblem /\ [][NextProblem]_vars

-----------------------------------------------------------------------------
\* Properties of package webapputil

ReadsOf(r) == { reads[r][i] : i \in DOMAIN reads[r] }
GeneratedFor(r) == { generated[r][i] : i \in DOMAIN generated[r] }

\* C1: a RequestID call made inside next, on the request next received from
\* RequestIDMiddleware(next, fn), returns exactly the string fn returned for
\* that request in that application of the middleware.
C1_ReadReturnsGenerated ==
    \A r \in Requests : \A rd \in ReadsOf(r) :
        rd.level >= 1 =>
            /\ ~rd.panic
            /\ rd.level <= Len(generated[r])
            /\ rd.val = generated[r][rd.level]

\* The scenario of the specification: fn returned "abc-123" and the wrapped
\* handler read it.
C1_Witness ==
    \E r \in Requests : \E rd \in ReadsOf(r) :
        /\ rd.level = 1 /\ ~rd.panic /\ rd.val = "abc-123"
        /\ generated[r][1] = "abc-123"

\* C2: when several requests are served at once through the same middleware,
\* in every interleaving of their steps a request's handler reads only an
\* identifier generated for its own request, never one generated for another.
C2_NoCrossTalk ==
    \A r \in Requests : \A rd \in ReadsOf(r) :
        rd.level >= 1 => ~rd.panic /\ rd.val \in GeneratedFor(r)

\* Two requests in flight together, holding different identifiers, each read
\* by its own handler.
C2_Witness ==
    \E r1, r2 \in Requests :
        /\ r1 # r2
        /\ rpc[r1] = "enter" /\ Level(r1) = 1 /\ reads[r1] # <<>>
        /\ rpc[r2] = "enter" /\ Level(r2) = 1 /\ reads[r2] # <<>>
        /\ generated[r1][1] # generated[r2][1]

\* C3: RequestID on a request whose context the middleware never populated
\* panics: it returns no string, the empty string included.
C3_UnpopulatedPanics ==
    \A r \in Requests : \A rd \in ReadsOf(r) :
        rd.level = 0 => rd.panic

\* RequestID was called outside the middleware, on a context that even holds a
\* string key named "requestID", and the serving goroutine panicked.
C3_Witness ==
    \E r \in Requests :
        /\ rpc[r] = "panicked"
        /\ Value(inbound[r], Str("requestID")) = Str("spoofed")
        /\ \E rd \in ReadsOf(r) : rd.level = 0 /\ rd.panic

\* C7, as stated: whatever the chain, RequestIDMiddleware applied more than
\* once included, every RequestID read made while serving a request returns
\* the value the first read returned.
C7_Original ==
    \A r \in Requests : \A i \in DOMAIN reads[r] :
        ~reads[r][i].panic => reads[r][i].val = reads[r][1].val

\* C7, amended: an existing context is never changed.  All RequestID reads made
\* on the same context (the request as the handlers of one level of the chain
\* hold it) return the same value, before and after the inner handlers ran.
C7_SameContextSameValue ==
    \A r \in Requests : \A i, j \in DOMAIN reads[r] :
        (reads[r][i].level = reads[r][j].level /\ ~reads[r][i].panic
            /\ ~reads[r][j].panic)
        => reads[r][i].val = reads[r][j].val

\* Two reads on the outer application's context, one before and one after an
\* inner application of the middleware set another identifier.
C7_Witness ==
    \E r \in Requests :
        /\ chain = 2 /\ rpc[r] = "exit" /\ Level(r) = 1
        /\ Len(generated[r]) = 2 /\ generated[r][1] # generated[r][2]
        /\ Len(reads[r]) = 2
        /\ reads[r][1].level = 1 /\ reads[r][2].level = 1
        /\ ~reads[r][2].panic

\* C10: the middleware only extends the context.  The context next receives is
\* the inbound context plus one entry, under requestIDKey; every other key
\* reads the same in both; the inbound request keeps its context, which has
\* no request-id entry before or after the middleware ran.
C10_OnlyExtends ==
    \A r \in Requests :
        /\ frames[r][1] = inbound[r]
        /\ Value(frames[r][1], requestIDKey) = Nil
        /\ \A k \in 1..(Len(frames[r]) - 1) :
            LET parent == frames[r][k]
                child == frames[r][k + 1]
            IN  /\ Len(child) = Len(parent) + 1
                /\ SubSeq(child, 1, Len(parent)) = parent
                /\ child[Len(child)][1] = requestIDKey
                /\ \A key \in OtherKeys : Value(child, key) = Value(parent, key)

\* The wrapped handler holds a request whose context still reads the inbound
\* "user" entry, next to a request id.
C10_Witness ==
    \E r \in Requests :
        /\ Level(r) = 1 /\ rpc[r] = "enter"
        /\ Value(inbound[r], Str("user")) = Str("alice")
        /\ Value(Top(r), Str("user")) = Str("alice")
        /\ Value(Top(r), requestIDKey) = Str("abc-123")

-----------------------------------------------------------------------------
\* Properties of package problem

Done == ppc > Len(SendProblemSteps)

\* C4: one call of SendProblem sets the Content-Type header once, then writes
\* the status line with the given code once, then writes the body; nothing is
\* set or written to the header after the body write.
C4_StrictOrder ==
    /\ calls = SubSeq(<<"Header.Set", "WriteHeader", "Write">>, 1, Len(calls))
    /\ Done => Len(calls) = (IF Marshal(prob).err THEN 2 ELSE 3)
    /\ (fresh /\ Len(calls) >= 2) => wroteHeader /\ status = code
    /\ (fresh /\ body # "") =>
            /\ Len(calls) = 3
            /\ sentHeader["Content-Type"] = <<contentType>>

\* A call that ran to its end on an unsent response and wrote a body.
C4_Witness ==
    /\ Done /\ fresh /\ code = 403
    /\ calls = <<"Header.Set", "WriteHeader", "Write">>
    /\ body = EncodeBytes(prob) /\ status = 403

\* C5: after SendProblem on a response whose header was unsent, Content-Type
\* is the single value application/problem+json, whatever values it had.
C5_ContentTypeOverridden ==
    (Done /\ fresh) =>
        /\ header["Content-Type"] = <<"application/problem+json">>
        /\ sentHeader["Content-Type"] = <<"application/problem+json">>
        /\ header["Cache-Control"] = header0["Cache-Control"]

\* The response carried two Content-Type values before the call.
C5_Witness ==
    /\ Done /\ fresh
    /\ header0["Content-Type"] = <<"application/json", "text/html">>
    /\ header["Content-Type"] = <<contentType>>

\* C6: SendProblem returns a non-nil error exactly when the value cannot be
\* serialized or the body write fails, and nil otherwise; it never panics.
\* When it fails, the Content-Type header and the status code are already
\* written and stay written.
C6_ErrorReturned ==
    /\ ret \in {"none", "nil", "err"}
    /\ Done =>
        /\ ret # "none"
        /\ (ret = "err") <=> (Marshal(prob).err \/ writeFailed)
        /\ ret = "err" =>
            /\ header["Content-Type"] = <<contentType>>
            /\ Len(calls) >= 2 /\ calls[2] = "WriteHeader"
            /\ fresh => (wroteHeader /\ status = code
                         /\ sentHeader["Content-Type"] = <<contentType>>)

\* A value that cannot be serialized: the error came back after the header
\* and the status went out, with no body.
C6_Witness ==
    /\ Done /\ ret = "err" /\ Marshal(prob).err /\ fresh
    /\ status = code /\ code = 400 /\ body = ""

ScenarioProblem ==
    [Kind |-> "Problem", Type |-> "https://example.com/x", Title |-> "Bad",
     Status |-> 400, Detail |-> "", Instance |-> "", Balance |-> 0]

ScenarioObject ==
    "{\"type\":\"https://example.com/x\",\"title\":\"Bad\",\"status\":400}"

\* SendProblem(w, 400, Problem{Type: "https://example.com/x", Title: "Bad",
\* Status: 400}) returned nil on a response that had sent nothing.
C8_Witness ==
    Done /\ fresh /\ ret = "nil" /\ code = 400 /\ prob = ScenarioProblem

\* C8, as stated: the response status is 400 and the body is exactly the
\* bytes of the object, with no byte before or after.
C8_Original ==
    C8_Witness => status = 400 /\ body = ScenarioObject

\* C8, amended: the response status is 400 and the body is the bytes of the
\* object followed by one newline, with no byte before.
C8_ObjectThenNewline ==
    C8_Witness => status = 400 /\ body = ScenarioObject \o "\n"

Contains(s, sub) ==
    \E i \in 1..(Len(s) - Len(sub) + 1) : SubSeq(s, i, i + Len(sub) - 1) = sub

BaseKeys ==
    [Type |-> "type", Title |-> "title", Status |-> "status",
     Detail |-> "detail", Instance |-> "instance"]

NonZero(p, f) == IF f = "Status" THEN p.Status # 0 ELSE p[f] # ""

\* C9: the serialized body holds the key of a base field (type, title, status,
\* detail, instance) if and only if the field is not the zero value of its
\* type; the key of a zero-valued field is absent.
C9_OmitEmpty ==
    (Done /\ fresh /\ ret = "nil") =>
        \A f \in DOMAIN BaseKeys :
            Contains(body, "\"" \o BaseKeys[f] \o "\":") <=> NonZero(prob, f)

\* A value with only Title set is sent as {"title":"Bad"}.
C9_Witness ==
    /\ Done /\ fresh /\ ret = "nil"
    /\ prob.Kind = "Problem" /\ prob.Title = "Bad"
    /\ prob.Type = "" /\ prob.Status = 0 /\ prob.Detail = "" /\ prob.Instance = ""
    /\ Contains(body, "{\"title\":\"Bad\"}")

====
